---- MODULE Spec2Model ----
(***************************************************************************)
(* Model of the direction-switching bus handle of src/src/lib.rs:          *)
(* DirectionErasedBus (the two-variant union), BidirectionBus (the handle  *)
(* with its Option slot) and the IoBus / SwitchableBus operations on them. *)
(* Bus values are opaque; each is named by a natural number, and a         *)
(* conversion of the underlying bus consumes one value and, when it        *)
(* succeeds, produces a fresh one.                                         *)
(***************************************************************************)
EXTENDS Naturals, Sequences, FiniteSets

(* ---------------------------------------------------------------- bounds *)

\* Number of handle operations started in one behaviour.
MaxCalls == 4

\* Number of pins of the bus pair (the common BusWidth of the fake bus pair).
Width == 2

\* Error values an underlying conversion can fail with.
Errors == {"E1", "E2"}

PinState == {"Low", "High"}

PinVectors == [1..Width -> PinState]

(* ------------------------------------------------------- values and types *)

NoneOpt == [tag |-> "None"]

Some(x) == [tag |-> "Some", v |-> x]

Ok(x) == [tag |-> "Ok", v |-> x]

Err(e) == [tag |-> "Err", e |-> e]

Panicked == [tag |-> "Panic"]

NoRet == [tag |-> "NoRet"]

\* DirectionErasedBus::InputBus(v)
InputBusOf(v) == [variant |-> "InputBus", val |-> v]

\* DirectionErasedBus::OutputBus(v)
OutputBusOf(v) == [variant |-> "OutputBus", val |-> v]

\* A reference into the value stored in the handle's slot.
RefTo(u, isMut) == [variant |-> u.variant, val |-> u.val, isMut |-> isMut]

(* ------------------------------------------------ underlying conversions *)

\* TOutput::into_input_bus: consumes the output bus `val`; the implementor
\* decides the outcome: "ok" yields the fresh input bus, anything else is the
\* error it fails with.
TOutputIntoInputBus(val, choice, fresh) ==
  IF choice = "ok" THEN Ok(fresh) ELSE Err(choice)

\* TInput::into_output_bus: the mirror image.
TInputIntoOutputBus(val, choice, fresh) ==
  IF choice = "ok" THEN Ok(fresh) ELSE Err(choice)

(* ------------------------------------------------------ DirectionErasedBus *)

\* A variant of into_input_bus without the short circuit: it delegates to the
\* underlying conversion whatever the variant.
ErasedIntoInputBusAlways(u, choice, fresh) ==
  [res |-> TOutputIntoInputBus(u.val, choice, fresh), calls |-> 1]

\* DirectionErasedBus::into_input_bus; `calls` counts the calls of the held
\* bus's own conversion.
ErasedIntoInputBus(u, choice, fresh) ==
  IF u.variant = "InputBus"
    THEN [res |-> Ok(u.val), calls |-> 0]
    ELSE [res |-> TOutputIntoInputBus(u.val, choice, fresh), calls |-> 1]

\* A variant of into_output_bus without the short circuit.
ErasedIntoOutputBusAlways(u, choice, fresh) ==
  [res |-> TInputIntoOutputBus(u.val, choice, fresh), calls |-> 1]

\* DirectionErasedBus::into_output_bus
ErasedIntoOutputBus(u, choice, fresh) ==
  IF u.variant = "InputBus"
    THEN [res |-> TInputIntoOutputBus(u.val, choice, fresh), calls |-> 1]
    ELSE [res |-> Ok(u.val), calls |-> 0]

(* ----------------------------------------------------------- BidirectionBus *)

\* A variant of the wrapping that builds the handle with an empty slot.
FromErasedEmpty(u) == NoneOpt

\* From<DirectionErasedBus> for BidirectionBus
FromErased(u) == Some(u)

\* A variant of the handle's into_input_bus that calls the other conversion.
BidirIntoInputBusCrossed(s, choice, fresh) ==
  ErasedIntoOutputBus(s.v, choice, fresh)

\* BidirectionBus::into_input_bus on a filled slot:
\* self.0.unwrap().into_input_bus()
BidirIntoInputBus(s, choice, fresh) == ErasedIntoInputBus(s.v, choice, fresh)

\* BidirectionBus::into_output_bus on a filled slot:
\* self.0.unwrap().into_output_bus()
BidirIntoOutputBus(s, choice, fresh) == ErasedIntoOutputBus(s.v, choice, fresh)

\* A variant of take that leaves the value in the slot (a copy, not a move).
TakeKeep(opt) == [taken |-> opt, left |-> opt]

\* Option::take as used on the slot: the value taken and what is left behind.
Take(opt) == [taken |-> opt, left |-> NoneOpt]

\* A variant of `?` that replaces the error by a fixed one.
QuestionMarkReplace(e) == Err("E1")

\* A variant of `?` that swallows the failure and reports success.
QuestionMarkSwallow(e) == Ok(e)

\* The `?` operator on a failed conversion: the error goes through From, which
\* for the same error type is the reflexive impl.
QuestionMark(e) == Err(e)

\* A variant of the failure path that puts the taken union back.
FailureRestores(s, taken) == taken

\* What the slot holds when `?` returns early from a switch call: the
\* assignment to self.0 is skipped, so the slot stays as take() left it.
FailureLeaves(s, taken) == s

\* A variant of the store of switch_to_input_bus under the other variant.
StoreInputAsOutput(v) == Some(OutputBusOf(v))

\* A variant that stores another value than the one the conversion produced.
StoreInputOther(v) == Some(InputBusOf(v + 1))

\* What switch_to_input_bus stores after a successful conversion.
StoreInput(v) == Some(InputBusOf(v))

\* A variant that re-wraps the produced value under the wrong variant.
StoreOutputAsInput(v) == Some(InputBusOf(v))

\* What switch_to_output_bus stores after a successful conversion.
StoreOutput(v) == Some(OutputBusOf(v))

VARIABLES
  slot,       \* BidirectionBus.0 : Option<DirectionErasedBus>
  pc,         \* position of the caller: idle, inside a switch call, ended
  bus,        \* the local `bus` of a switch call (Option-shaped)
  pre,        \* the slot as the current/last operation found it
  ret,        \* what the last completed operation returned
  hist,       \* the completed handle operations, in order
  started,    \* number of handle operations started
  nextId,     \* the next fresh bus value
  convCalls,  \* calls of an underlying conversion, in total
  callConvs,  \* calls of an underlying conversion by the current/last operation
  lastConv,   \* the last call of a DirectionErasedBus conversion
  consumed,   \* bus values consumed by an underlying conversion
  fallible,   \* whether the bus pair's conversions can fail
  built,      \* the union value the handle was built from
  pins,       \* pin states last driven through write_bus
  panicAt     \* the place that panicked, if any

vars == <<slot, pc, bus, pre, ret, hist, started, nextId, convCalls, callConvs,
          lastConv, consumed, fallible, built, pins, panicAt>>

NoConv == [op |-> "none"]

\* The outcomes the bus pair's conversion can have.
Outcomes == IF fallible THEN {"ok"} \cup Errors ELSE {"ok"}

Init ==
  /\ built \in {InputBusOf(0), OutputBusOf(0)}
  /\ slot = FromErased(built)
  /\ fallible \in BOOLEAN
  /\ pc = "idle"
  /\ bus = NoneOpt
  /\ pre = slot
  /\ ret = NoRet
  /\ hist = <<>>
  /\ started = 0
  /\ nextId = 1
  /\ convCalls = 0
  /\ callConvs = 0
  /\ lastConv = NoConv
  /\ consumed = {}
  /\ pins = [i \in 1..Width |-> "Low"]
  /\ panicAt = "none"

\* A variant in which an operation may start while a switch call is running.
HandleFreeReentrant ==
  pc \in {"idle", "in_taken", "in_stored", "out_taken", "out_stored"}

\* The receiver of every handle operation is `&mut self` or `self`: an
\* operation starts only while no other operation of the handle is running.
HandleFree == pc = "idle"

\* The record of a completed operation: the slot before and after it, what it
\* returned, the underlying conversions it made and the union conversion it ran.
Done(op, before, r, n, cv, after) ==
  Append(hist, [op |-> op, pre |-> before, ret |-> r, convs |-> n,
                conv |-> cv, post |-> after])

(* ------------------------------------------------- switch_to_input_bus *)

\* let bus = self.0.take().unwrap();
SwitchToInputBusTake ==
  /\ HandleFree
  /\ started < MaxCalls
  /\ started' = started + 1
  /\ callConvs' = 0
  /\ pre' = slot
  /\ LET t == Take(slot) IN
       IF t.taken.tag = "None"
         THEN /\ pc' = "panicked"
              /\ panicAt' = "switch_to_input_bus:take"
              /\ ret' = Panicked
              /\ hist' = Done("switch_to_input_bus", slot, Panicked, 0, NoConv, t.left)
              /\ slot' = t.left
              /\ bus' = bus
         ELSE /\ pc' = "in_taken"
              /\ bus' = t.taken
              /\ slot' = t.left
              /\ ret' = NoRet
              /\ UNCHANGED <<hist, panicAt>>
  /\ UNCHANGED <<nextId, convCalls, lastConv, consumed, fallible, built, pins>>

\* self.0 = Some(DirectionErasedBus::InputBus(bus.into_input_bus()?));
SwitchToInputBusConvert ==
  /\ pc = "in_taken"
  /\ \E choice \in Outcomes :
       LET c == ErasedIntoInputBus(bus.v, choice, nextId) IN
         /\ lastConv' = [op |-> "into_input_bus", u |-> bus.v, choice |-> choice,
                         fresh |-> nextId, res |-> c.res, calls |-> c.calls]
         /\ convCalls' = convCalls + c.calls
         /\ callConvs' = callConvs + c.calls
         /\ consumed' = IF c.calls > 0 THEN consumed \cup {bus.v.val} ELSE consumed
         /\ nextId' = IF c.calls > 0 /\ c.res.tag = "Ok" THEN nextId + 1 ELSE nextId
         /\ bus' = NoneOpt
         /\ IF c.res.tag = "Ok"
              THEN /\ slot' = StoreInput(c.res.v)
                   /\ pc' = "in_stored"
                   /\ UNCHANGED <<ret, hist>>
              ELSE /\ ret' = QuestionMark(c.res.e)
                   /\ hist' = Done("switch_to_input_bus", pre, QuestionMark(c.res.e),
                                   callConvs + c.calls, lastConv',
                                   FailureLeaves(slot, bus))
                   /\ pc' = "idle"
                   /\ slot' = FailureLeaves(slot, bus)
  /\ UNCHANGED <<pre, started, fallible, built, pins, panicAt>>

\* match self.0.as_ref().unwrap() { InputBus(bus) => Ok(bus), _ => panic!() }
SwitchToInputBusReturn ==
  /\ pc = "in_stored"
  /\ IF slot.tag = "None"
       THEN /\ pc' = "panicked"
            /\ panicAt' = "switch_to_input_bus:as_ref"
            /\ ret' = Panicked
       ELSE IF slot.v.variant = "InputBus"
         THEN /\ pc' = "idle"
              /\ ret' = Ok(RefTo(slot.v, FALSE))
              /\ panicAt' = panicAt
         ELSE /\ pc' = "panicked"
              /\ panicAt' = "switch_to_input_bus:wildcard"
              /\ ret' = Panicked
  /\ hist' = Done("switch_to_input_bus", pre, ret', callConvs, lastConv, slot)
  /\ UNCHANGED <<slot, bus, pre, started, nextId, convCalls, callConvs, lastConv,
                 consumed, fallible, built, pins>>

(* ------------------------------------------------ switch_to_output_bus *)

\* let bus = self.0.take().unwrap();
SwitchToOutputBusTake ==
  /\ HandleFree
  /\ started < MaxCalls
  /\ started' = started + 1
  /\ callConvs' = 0
  /\ pre' = slot
  /\ LET t == Take(slot) IN
       IF t.taken.tag = "None"
         THEN /\ pc' = "panicked"
              /\ panicAt' = "switch_to_output_bus:take"
              /\ ret' = Panicked
              /\ hist' = Done("switch_to_output_bus", slot, Panicked, 0, NoConv, t.left)
              /\ slot' = t.left
              /\ bus' = bus
         ELSE /\ pc' = "out_taken"
              /\ bus' = t.taken
              /\ slot' = t.left
              /\ ret' = NoRet
              /\ UNCHANGED <<hist, panicAt>>
  /\ UNCHANGED <<nextId, convCalls, lastConv, consumed, fallible, built, pins>>

\* self.0 = Some(DirectionErasedBus::OutputBus(bus.into_output_bus()?));
SwitchToOutputBusConvert ==
  /\ pc = "out_taken"
  /\ \E choice \in Outcomes :
       LET c == ErasedIntoOutputBus(bus.v, choice, nextId) IN
         /\ lastConv' = [op |-> "into_output_bus", u |-> bus.v, choice |-> choice,
                         fresh |-> nextId, res |-> c.res, calls |-> c.calls]
         /\ convCalls' = convCalls + c.calls
         /\ callConvs' = callConvs + c.calls
         /\ consumed' = IF c.calls > 0 THEN consumed \cup {bus.v.val} ELSE consumed
         /\ nextId' = IF c.calls > 0 /\ c.res.tag = "Ok" THEN nextId + 1 ELSE nextId
         /\ bus' = NoneOpt
         /\ IF c.res.tag = "Ok"
              THEN /\ slot' = StoreOutput(c.res.v)
                   /\ pc' = "out_stored"
                   /\ UNCHANGED <<ret, hist>>
              ELSE /\ ret' = QuestionMark(c.res.e)
                   /\ hist' = Done("switch_to_output_bus", pre, QuestionMark(c.res.e),
                                   callConvs + c.calls, lastConv',
                                   FailureLeaves(slot, bus))
                   /\ pc' = "idle"
                   /\ slot' = FailureLeaves(slot, bus)
  /\ UNCHANGED <<pre, started, fallible, built, pins, panicAt>>

\* match self.0.as_mut().unwrap() { OutputBus(bus) => Ok(bus), _ => panic!() }
SwitchToOutputBusReturn ==
  /\ pc = "out_stored"
  /\ IF slot.tag = "None"
       THEN /\ pc' = "panicked"
            /\ panicAt' = "switch_to_output_bus:as_mut"
            /\ ret' = Panicked
       ELSE IF slot.v.variant = "OutputBus"
         THEN /\ pc' = "idle"
              /\ ret' = Ok(RefTo(slot.v, TRUE))
              /\ panicAt' = panicAt
         ELSE /\ pc' = "panicked"
              /\ panicAt' = "switch_to_output_bus:wildcard"
              /\ ret' = Panicked
  /\ hist' = Done("switch_to_output_bus", pre, ret', callConvs, lastConv, slot)
  /\ UNCHANGED <<slot, bus, pre, started, nextId, convCalls, callConvs, lastConv,
                 consumed, fallible, built, pins>>

(* ------------------------------------------- consuming handle operations *)

\* BidirectionBus::into_input_bus(self): self.0.unwrap().into_input_bus()
IntoInputBus ==
  /\ HandleFree
  /\ started < MaxCalls
  /\ started' = started + 1
  /\ pre' = slot
  /\ IF slot.tag = "None"
       THEN /\ pc' = "panicked"
            /\ panicAt' = "into_input_bus:unwrap"
            /\ ret' = Panicked
            /\ hist' = Done("into_input_bus", slot, Panicked, 0, NoConv, slot)
            /\ callConvs' = 0
            /\ UNCHANGED <<slot, lastConv, convCalls, consumed, nextId>>
       ELSE \E choice \in Outcomes :
              LET c == BidirIntoInputBus(slot, choice, nextId) IN
                /\ lastConv' = [op |-> "into_input_bus", u |-> slot.v,
                                choice |-> choice, fresh |-> nextId,
                                res |-> c.res, calls |-> c.calls]
                /\ convCalls' = convCalls + c.calls
                /\ callConvs' = c.calls
                /\ consumed' = IF c.calls > 0 THEN consumed \cup {slot.v.val}
                                              ELSE consumed
                /\ nextId' = IF c.calls > 0 /\ c.res.tag = "Ok" THEN nextId + 1
                                                                ELSE nextId
                /\ slot' = NoneOpt
                /\ ret' = c.res
                /\ hist' = Done("into_input_bus", slot, c.res, c.calls, lastConv', NoneOpt)
                /\ pc' = "consumed"
                /\ panicAt' = panicAt
  /\ UNCHANGED <<bus, fallible, built, pins>>

\* BidirectionBus::into_output_bus(self): self.0.unwrap().into_output_bus()
IntoOutputBus ==
  /\ HandleFree
  /\ started < MaxCalls
  /\ started' = started + 1
  /\ pre' = slot
  /\ IF slot.tag = "None"
       THEN /\ pc' = "panicked"
            /\ panicAt' = "into_output_bus:unwrap"
            /\ ret' = Panicked
            /\ hist' = Done("into_output_bus", slot, Panicked, 0, NoConv, slot)
            /\ callConvs' = 0
            /\ UNCHANGED <<slot, lastConv, convCalls, consumed, nextId>>
       ELSE \E choice \in Outcomes :
              LET c == BidirIntoOutputBus(slot, choice, nextId) IN
                /\ lastConv' = [op |-> "into_output_bus", u |-> slot.v,
                                choice |-> choice, fresh |-> nextId,
                                res |-> c.res, calls |-> c.calls]
                /\ convCalls' = convCalls + c.calls
                /\ callConvs' = c.calls
                /\ consumed' = IF c.calls > 0 THEN consumed \cup {slot.v.val}
                                              ELSE consumed
                /\ nextId' = IF c.calls > 0 /\ c.res.tag = "Ok" THEN nextId + 1
                                                                ELSE nextId
                /\ slot' = NoneOpt
                /\ ret' = c.res
                /\ hist' = Done("into_output_bus", slot, c.res, c.calls, lastConv', NoneOpt)
                /\ pc' = "consumed"
                /\ panicAt' = panicAt
  /\ UNCHANGED <<bus, fallible, built, pins>>

\* From<BidirectionBus> for DirectionErasedBus: value.0.unwrap()
IntoErased ==
  /\ HandleFree
  /\ started < MaxCalls
  /\ started' = started + 1
  /\ callConvs' = 0
  /\ pre' = slot
  /\ IF slot.tag = "None"
       THEN /\ pc' = "panicked"
            /\ panicAt' = "from:unwrap"
            /\ ret' = Panicked
            /\ slot' = slot
       ELSE /\ pc' = "consumed"
            /\ ret' = [tag |-> "Union", v |-> slot.v]
            /\ slot' = NoneOpt
            /\ panicAt' = panicAt
  /\ hist' = Done("from", slot, ret', 0, NoConv, slot')
  /\ UNCHANGED <<bus, nextId, convCalls, lastConv, consumed, fallible, built, pins>>

(* ------------------------------------------------------------ write_bus *)

\* The caller holds the `&mut TOutput` a switch_to_output_bus returned.
HoldsOutputRef ==
  /\ pc = "idle"
  /\ ret.tag = "Ok"
  /\ Len(hist) > 0
  /\ hist[Len(hist)].op = "switch_to_output_bus"

\* OutputBus::write_bus through the returned reference, on the fake bus pair
\* (its write drives the pins and succeeds).
WriteBus ==
  /\ HoldsOutputRef
  /\ \E states \in PinVectors :
       /\ states # pins
       /\ pins' = states
  /\ UNCHANGED <<slot, pc, bus, pre, ret, hist, started, nextId, convCalls,
                 callConvs, lastConv, consumed, fallible, built, panicAt>>

Next ==
  \/ SwitchToInputBusTake
  \/ SwitchToInputBusConvert
  \/ SwitchToInputBusReturn
  \/ SwitchToOutputBusTake
  \/ SwitchToOutputBusConvert
  \/ SwitchToOutputBusReturn
  \/ IntoInputBus
  \/ IntoOutputBus
  \/ IntoErased
  \/ WriteBus

Spec == Init /\ [][Next]_vars

(* ------------------------------------------------------------ properties *)

Switches == {"switch_to_input_bus", "switch_to_output_bus"}

UnwrapPlaces == {"switch_to_input_bus:take", "switch_to_output_bus:take",
                 "switch_to_input_bus:as_ref", "switch_to_output_bus:as_mut",
                 "into_input_bus:unwrap", "into_output_bus:unwrap", "from:unwrap"}

\* The result of the underlying conversion a recorded union conversion met.
UnderlyingResult(cv) ==
  IF cv.op = "into_input_bus"
    THEN TOutputIntoInputBus(cv.u.val, cv.choice, cv.fresh)
    ELSE TInputIntoOutputBus(cv.u.val, cv.choice, cv.fresh)

\* C1: whenever no switch call is in progress (the caller is between
\* operations), the handle's slot holds a union value, after a failed switch
\* as well as after a successful one.
C1_NeverEmpty == pc = "idle" => slot.tag = "Some"

\* C2: no operation of the handle ever executes unwrap() on an empty slot.
C2_NoUnwrapOnEmpty == panicAt \notin UnwrapPlaces

\* C3: a switch_to_input_bus on a handle holding an output bus whose
\* into_input_bus fails with e returns Err(e), that very error; symmetrically
\* for switch_to_output_bus on a handle holding an input bus.
C3_ErrorPropagation ==
  \A i \in DOMAIN hist :
    LET h == hist[i] IN
      /\ ( /\ h.op = "switch_to_input_bus"
           /\ h.pre.tag = "Some"
           /\ h.pre.v.variant = "OutputBus"
           /\ h.conv.choice # "ok" )
         => h.ret = Err(h.conv.choice)
      /\ ( /\ h.op = "switch_to_output_bus"
           /\ h.pre.tag = "Some"
           /\ h.pre.v.variant = "InputBus"
           /\ h.conv.choice # "ok" )
         => h.ret = Err(h.conv.choice)

\* C3 witness: a switch to input on a held output bus failed with E2 after
\* one underlying call.
C3_Witness ==
  /\ \E i \in DOMAIN hist :
       /\ hist[i].op = "switch_to_input_bus"
       /\ hist[i].pre = Some(OutputBusOf(0))
       /\ hist[i].ret = Err("E2")
       /\ hist[i].convs = 1

\* C4: of two consecutive switch calls in the same direction, the two together
\* call the underlying conversion at most once, the second calls it not at
\* all, and the second returns the bus value the first returned.
C4_IdempotentShortCircuit ==
  \A i \in DOMAIN hist :
    ( /\ i + 1 \in DOMAIN hist
      /\ hist[i].op \in Switches
      /\ hist[i + 1].op = hist[i].op )
    => /\ hist[i].convs + hist[i + 1].convs <= 1
       /\ hist[i + 1].convs = 0
       /\ hist[i + 1].ret.tag = "Ok"
       /\ hist[i].ret.tag = "Ok" => hist[i + 1].ret = hist[i].ret

\* C5: for a bus pair whose conversions always succeed, the three calls
\* switch_to_output_bus, switch_to_input_bus, switch_to_output_bus, made on a
\* handle holding either variant, return Ok three times and leave the handle
\* holding the output variant, whose returned mutable reference can be
\* written through.
C5_RoundTrip ==
  \A i \in DOMAIN hist :
    ( /\ ~fallible
      /\ hist[i].pre.tag = "Some"
      /\ hist[i].op = "switch_to_output_bus" )
    => /\ hist[i].ret.tag = "Ok"
       /\ (i + 1 \in DOMAIN hist /\ hist[i + 1].op = "switch_to_input_bus")
          => /\ hist[i + 1].ret.tag = "Ok"
             /\ (i + 2 \in DOMAIN hist /\ hist[i + 2].op = "switch_to_output_bus")
                => /\ hist[i + 2].ret.tag = "Ok"
                   /\ hist[i + 2].post.tag = "Some"
                   /\ hist[i + 2].post.v.variant = "OutputBus"
                   /\ hist[i + 2].ret.v = RefTo(hist[i + 2].post.v, TRUE)
                   /\ (i + 2 = Len(hist) /\ pc = "idle") => HoldsOutputRef

\* C5 witness: the round trip was made from a handle built on an input bus,
\* and the pins were then driven through the returned reference.
C5_Witness ==
  /\ ~fallible
  /\ Len(hist) = 3
  /\ hist[1].pre = Some(InputBusOf(0))
  /\ hist[1].op = "switch_to_output_bus"
  /\ hist[2].op = "switch_to_input_bus"
  /\ hist[3].op = "switch_to_output_bus"
  /\ pins = [k \in 1..Width |-> "High"]

\* C6: a switch_to_input_bus that returns Ok leaves the slot holding the
\* InputBus variant around exactly the value the union's into_input_bus
\* produced, and returns a shared reference to that stored value;
\* a switch_to_output_bus that returns Ok leaves the OutputBus variant around
\* the produced value and returns a mutable reference to it.
C6_SuccessPostcondition ==
  \A i \in DOMAIN hist :
    LET h == hist[i] IN
      /\ (h.op = "switch_to_input_bus" /\ h.ret.tag = "Ok")
         => LET made == ErasedIntoInputBus(h.pre.v, h.conv.choice, h.conv.fresh).res
            IN /\ made.tag = "Ok"
               /\ h.post = Some(InputBusOf(made.v))
               /\ h.ret.v = [variant |-> "InputBus", val |-> made.v,
                             isMut |-> FALSE]
      /\ (h.op = "switch_to_output_bus" /\ h.ret.tag = "Ok")
         => LET made == ErasedIntoOutputBus(h.pre.v, h.conv.choice, h.conv.fresh).res
            IN /\ made.tag = "Ok"
               /\ h.post = Some(OutputBusOf(made.v))
               /\ h.ret.v = [variant |-> "OutputBus", val |-> made.v,
                             isMut |-> TRUE]

\* C6 witness: a switch to input that converted a held output bus returned Ok
\* and so did a later switch to output.
C6_Witness ==
  /\ Len(hist) >= 2
  /\ hist[1].op = "switch_to_input_bus"
  /\ hist[1].pre = Some(OutputBusOf(0))
  /\ hist[1].ret.tag = "Ok"
  /\ hist[2].op = "switch_to_output_bus"
  /\ hist[2].ret.tag = "Ok"

\* C7: the union's into_input_bus returns Ok(held value) with no underlying
\* call on the InputBus variant, and exactly the result of the held output
\* bus's into_input_bus, called once, on the OutputBus variant; into_output_bus
\* is the mirror image.
C7_UnionTransition ==
  /\ lastConv.op = "into_input_bus"
     => /\ lastConv.u.variant = "InputBus"
           => lastConv.res = Ok(lastConv.u.val) /\ lastConv.calls = 0
        /\ lastConv.u.variant = "OutputBus"
           => /\ lastConv.res = TOutputIntoInputBus(lastConv.u.val,
                                   lastConv.choice, lastConv.fresh)
              /\ lastConv.calls = 1
  /\ lastConv.op = "into_output_bus"
     => /\ lastConv.u.variant = "OutputBus"
           => lastConv.res = Ok(lastConv.u.val) /\ lastConv.calls = 0
        /\ lastConv.u.variant = "InputBus"
           => /\ lastConv.res = TInputIntoOutputBus(lastConv.u.val,
                                   lastConv.choice, lastConv.fresh)
              /\ lastConv.calls = 1

\* C7 witness: into_input_bus ran on the InputBus variant of a bus pair whose
\* conversions can fail.
C7_Witness ==
  /\ lastConv.op = "into_input_bus"
  /\ lastConv.u.variant = "InputBus"
  /\ lastConv.choice = "E1"

\* C8: one switch call calls the underlying conversion at most once, and a
\* switch call whose underlying conversion failed returns Err.
C8_NoRetryNoSwallow ==
  /\ callConvs <= 1
  /\ \A i \in DOMAIN hist :
       LET h == hist[i] IN
         h.op \in Switches
         => /\ h.convs <= 1
            /\ ( /\ h.conv.op # "none"
                 /\ h.conv.u.variant # (IF h.op = "switch_to_input_bus"
                                          THEN "InputBus" ELSE "OutputBus")
                 /\ UnderlyingResult(h.conv).tag = "Err" )
               => h.ret.tag = "Err" /\ h.convs = 1

\* C8 witness: a switch to output on a held input bus met a failing
\* conversion.
C8_Witness ==
  \E i \in DOMAIN hist :
    /\ hist[i].op = "switch_to_output_bus"
    /\ hist[i].pre.tag = "Some"
    /\ hist[i].pre.v.variant = "InputBus"
    /\ hist[i].conv.choice = "E1"

\* The bus values owned somewhere: in the slot, in the local of a switch call,
\* or in the value a consuming operation handed to its caller.
HeldInSlot == IF slot.tag = "Some" THEN {slot.v.val} ELSE {}

HeldInLocal == IF bus.tag = "Some" THEN {bus.v.val} ELSE {}

HeldByCaller ==
  IF pc = "consumed" /\ ret.tag = "Ok" THEN {ret.v}
  ELSE IF pc = "consumed" /\ ret.tag = "Union" THEN {ret.v.val}
  ELSE {}

Places ==
  (IF slot.tag = "Some" THEN 1 ELSE 0) + (IF bus.tag = "Some" THEN 1 ELSE 0)
    + Cardinality(HeldByCaller)

\* C10: a bus value is never held in two places: at most one place (slot,
\* local of a switch call, caller of a consuming operation) holds a value,
\* no place holds a value a conversion has consumed, every underlying
\* conversion consumed one value and they produced at most one value each.
C10_LinearOwnership ==
  /\ Places <= 1
  /\ (HeldInSlot \cup HeldInLocal \cup HeldByCaller) \cap consumed = {}
  /\ Cardinality(consumed) = convCalls
  /\ nextId - 1 <= convCalls

\* C10 witness: a switch call has taken the value out of the slot after an
\* earlier conversion consumed the initial bus value.
C10_Witness ==
  /\ pc = "out_taken"
  /\ bus.tag = "Some"
  /\ consumed = {0}
  /\ convCalls = 1


\* C11: after a switch call returned Err, the handle no longer holds the bus
\* value it held before the call: the failed conversion consumed it and the
\* handle did not get it back.
C11_ResourceLostOnFailure ==
  \A i \in DOMAIN hist :
    LET h == hist[i] IN
      (h.op \in Switches /\ h.ret.tag = "Err")
      => /\ h.pre.tag = "Some"
         /\ h.pre.v.val \in consumed
         /\ h.post.tag = "Some" => h.post.v.val # h.pre.v.val
         /\ (i = Len(hist) /\ pc = "idle") => h.pre.v.val \notin HeldInSlot

\* C11 witness: a switch to input failed on a handle that held the output bus
\* produced by an earlier successful switch.
C11_Witness ==
  /\ pc = "idle"
  /\ Len(hist) = 2
  /\ hist[1].op = "switch_to_output_bus"
  /\ hist[1].ret.tag = "Ok"
  /\ hist[2].op = "switch_to_input_bus"
  /\ hist[2].pre = Some(OutputBusOf(1))
  /\ hist[2].ret.tag = "Err"

\* A switch call has taken the union and has not yet stored its result or
\* returned.
InWindow == pc \in {"in_taken", "out_taken"}

\* A switch call is running.
InSwitch == pc \in {"in_taken", "in_stored", "out_taken", "out_stored"}

\* C12: the take, convert, re-store sequence of a switch call is not
\* interleaved with any other operation on the handle: while a switch call is
\* running no operation starts and nothing is written through an earlier
\* reference, and from the take up to the store or the return the only step
\* is the conversion of that same call, the slot being empty meanwhile.
C12_CriticalSection ==
  [][ /\ InSwitch => (started' = started /\ pins' = pins /\ pre' = pre)
      /\ pc = "in_taken"
         => /\ slot.tag = "None"
            /\ pc' \in {"in_stored", "idle"}
            /\ lastConv'.op = "into_input_bus" /\ lastConv'.u = bus.v
      /\ pc = "out_taken"
         => /\ slot.tag = "None"
            /\ pc' \in {"out_stored", "idle"}
            /\ lastConv'.op = "into_output_bus" /\ lastConv'.u = bus.v
      /\ pc = "in_stored" => pc' \in {"idle", "panicked"}
      /\ pc = "out_stored" => pc' \in {"idle", "panicked"} ]_vars

\* C12 witness: the second operation on the handle is a switch call that has
\* taken the union out of the slot and not yet converted it.
C12_Witness ==
  /\ InWindow
  /\ started = 2
  /\ slot.tag = "None"
  /\ bus.tag = "Some"

\* C13: a switch in the direction the handle already holds is an infallible
\* no-op: switch_to_input_bus on a handle holding InputBus(v) returns Ok (a
\* reference to v), calls no underlying conversion and leaves InputBus(v)
\* stored, also for a bus pair whose conversions can fail; likewise
\* switch_to_output_bus on a handle holding OutputBus(v).
C13_SameDirectionNoOp ==
  \A i \in DOMAIN hist :
    LET h == hist[i] IN
      /\ ( /\ h.op = "switch_to_input_bus"
           /\ h.pre.tag = "Some"
           /\ h.pre.v.variant = "InputBus" )
         => /\ h.ret = Ok(RefTo(h.pre.v, FALSE))
            /\ h.convs = 0
            /\ h.post = h.pre
      /\ ( /\ h.op = "switch_to_output_bus"
           /\ h.pre.tag = "Some"
           /\ h.pre.v.variant = "OutputBus" )
         => /\ h.ret = Ok(RefTo(h.pre.v, TRUE))
            /\ h.convs = 0
            /\ h.post = h.pre

\* C13 witness: with a bus pair whose conversions can fail, a switch to
\* output was made on a handle already holding an output bus, and the
\* conversion, had it been called, would have failed.
C13_Witness ==
  /\ fallible
  /\ \E i \in DOMAIN hist :
       /\ hist[i].op = "switch_to_output_bus"
       /\ hist[i].pre = Some(OutputBusOf(0))
       /\ hist[i].conv.choice = "E2"

WildcardPlaces == {"switch_to_input_bus:wildcard", "switch_to_output_bus:wildcard"}

PostStorePlaces == {"switch_to_input_bus:as_ref", "switch_to_output_bus:as_mut"}

\* C14: in a switch_to_input_bus that passed the conversion the slot matched
\* afterwards holds the InputBus variant, in a switch_to_output_bus the
\* OutputBus variant, so neither the unwrap after the store nor the wildcard
\* panic!() arm is ever taken.
C14_WildcardUnreachable ==
  /\ panicAt \notin (WildcardPlaces \cup PostStorePlaces)
  /\ pc = "in_stored" => (slot.tag = "Some" /\ slot.v.variant = "InputBus")
  /\ pc = "out_stored" => (slot.tag = "Some" /\ slot.v.variant = "OutputBus")

\* C14 witness: a switch_to_input_bus that converted a held output bus has
\* passed the conversion and is about to match the slot.
C14_Witness ==
  /\ pc = "in_stored"
  /\ pre.tag = "Some"
  /\ pre.v.variant = "OutputBus"
  /\ callConvs = 1

\* The first n operations were all switch calls that returned Ok.
AllOkSwitches(n) ==
  \A j \in 1..n : hist[j].op \in Switches /\ hist[j].ret.tag = "Ok"

\* C15: a union value u wrapped into a handle and converted straight back is
\* u again (same variant, same bus value); and after switch calls that all
\* returned Ok, converting the handle back yields the variant and the bus
\* value the last switch stored and returned a reference to.
C15_WrapUnwrapRoundTrip ==
  \A i \in DOMAIN hist :
    hist[i].op = "from"
    => /\ i = 1 => hist[i].ret = [tag |-> "Union", v |-> built]
       /\ (i > 1 /\ AllOkSwitches(i - 1))
          => /\ hist[i].ret.tag = "Union"
             /\ hist[i].ret.v = hist[i - 1].post.v
             /\ hist[i].ret.v.variant = hist[i - 1].ret.v.variant
             /\ hist[i].ret.v.val = hist[i - 1].ret.v.val

\* C15 witness: the handle was converted back after two successful switches
\* that each converted the bus.
C15_Witness ==
  /\ Len(hist) = 3
  /\ hist[3].op = "from"
  /\ AllOkSwitches(2)
  /\ hist[1].convs = 1
  /\ hist[2].convs = 1

\* C15 second witness case: the handle was converted back at once.
C15_Immediate == Len(hist) = 1 /\ hist[1].op = "from" /\ pc = "consumed"

\* C16: for a handle whose slot holds the union u, the handle's
\* into_input_bus returns exactly what u.into_input_bus() returns (the same Ok
\* value or the same error) with the same number of underlying conversion
\* calls, and the handle's into_output_bus what u.into_output_bus() returns.
C16_HandleAgreesWithUnion ==
  \A i \in DOMAIN hist :
    LET h == hist[i] IN
      /\ (h.op = "into_input_bus" /\ h.pre.tag = "Some")
         => LET r == ErasedIntoInputBus(h.pre.v, h.conv.choice, h.conv.fresh)
            IN h.ret = r.res /\ h.convs = r.calls
      /\ (h.op = "into_output_bus" /\ h.pre.tag = "Some")
         => LET r == ErasedIntoOutputBus(h.pre.v, h.conv.choice, h.conv.fresh)
            IN h.ret = r.res /\ h.convs = r.calls

\* C16 witness: the handle's into_input_bus was called on a handle holding an
\* output bus stored by an earlier switch, and the conversion failed.
C16_Witness ==
  /\ pc = "consumed"
  /\ Len(hist) = 2
  /\ hist[2].op = "into_input_bus"
  /\ hist[2].pre = Some(OutputBusOf(1))
  /\ hist[2].ret = Err("E1")

====
